---- MODULE Spec2Model ----
(***************************************************************************)
(* Model of analyzer/scheduling.py: MultiDocAnalyzer and its two           *)
(* strategies, SyncMultiDocAnalyzer and AsyncMultiDocAnalyzer, together    *)
(* with the Celery work queue the async strategy polls.                    *)
(*                                                                         *)
(* A Python dict is modelled as a sequence of <<key, value>> pairs in      *)
(* insertion order (dicts iterate in insertion order, and assigning to an  *)
(* existing key keeps its position).                                       *)
(***************************************************************************)
EXTENDS Integers, Sequences, FiniteSets, TLC

\* ------------------------------------------------------------- bounds
\* longest list of documents handed to the constructor
MaxDocs == 2
\* number of perform_analysis() calls explored
MaxSteps == 4

\* document names, terms and per-document counts the model draws from
DocNames == <<"D1", "D2", "D3", "D4">>
DocIds == {DocNames[i] : i \in 1..Len(DocNames)}
Terms == {"cat", "dog"}
Counts == {1, 2}

VARIABLES
    kind,      \* which subclass was constructed: "sync" or "async"
    docs,      \* self._docs, the list handed to the constructor
    progress,  \* self._progress: total, completed, details
    started,   \* self._started
    tasks,     \* self._tasks (async only): doc -> job id or NoTask
    jobs,      \* the work queue: one record per job submitted with delay()
    nsteps,    \* number of perform_analysis() calls made so far
    failed,    \* TRUE once a collaborator (open, analyzer, get) has raised
    ret,       \* outcome of the last call on the scheduler
    other      \* a second run of the program on the same list of documents

vars == <<kind, docs, progress, started, tasks, jobs, nsteps, failed, ret,
          other>>

\* ------------------------------------------------------- python values
\* None / a present value, for `results`
None == [none |-> TRUE, val |-> <<>>]
Some(v) == [none |-> FALSE, val |-> v]

\* self._tasks[doc] = None
NoTask == 0

Range(s) == {s[i] : i \in 1..Len(s)}
SeqsUpTo(S, n) == UNION {[1..k -> S] : k \in 0..n}

\* Document names are opaque to the scheduler, so the lists handed to the
\* constructor are taken up to renaming: the first document is D1 and each
\* new name is the next unused one. Repeated names are kept.
NameIndex(d) == CHOOSE i \in 1..Len(DocNames) : DocNames[i] = d
DocLists ==
    {ds \in SeqsUpTo(DocIds, MaxDocs) :
        \A i \in 1..Len(ds) :
            \/ NameIndex(ds[i]) = 1
            \/ \E j \in 1..(i - 1) : NameIndex(ds[j]) >= NameIndex(ds[i]) - 1}

\* dict operations on the <<key, value>> sequence encoding
DictHas(d, k) == \E i \in 1..Len(d) : d[i][1] = k
DictIndex(d, k) == CHOOSE i \in 1..Len(d) : d[i][1] = k
DictGet(d, k) == d[DictIndex(d, k)][2]
DictSet(d, k, v) ==
    IF DictHas(d, k) THEN [d EXCEPT ![DictIndex(d, k)] = <<k, v>>]
    ELSE Append(d, <<k, v>>)
DictKeys(d) == [i \in 1..Len(d) |-> d[i][1]]

\* the exceptions a collaborator (open, the analyzer, a job's get) raises
CollaboratorErrors == {"IOError", "ValueError", "TaskFailure"}

\* what a call returns or raises
Ret(op, exc, value) == [op |-> op, exc |-> exc, value |-> value]

\* ------------------------------------------------- the document analyzer
\* One entry of analyze_document()'s result for document d: the sentences
\* of a term are sentences of d, identified here by <<d, term>>.
Entry(d, t, c) == <<t, [count |-> c, sentences |-> << <<d, t>> >>]>>

\* The term maps analyze_document() can return for d: a dict whose keys are
\* distinct terms, in the vectorizer's vocabulary order.
TermMapsOf(d) ==
    {<< >>}
    \cup {<<Entry(d, t, c)>> : t \in Terms, c \in Counts}
    \cup {<<Entry(d, t[1], c[1]), Entry(d, t[2], c[2])>> :
            t \in {x \in Terms \X Terms : x[1] # x[2]}, c \in Counts \X Counts}

\* --------------------------------------------------- MultiDocAnalyzer
\* { doc: {'processed': False, 'results': None} for doc in self._docs }
RECURSIVE InitDetails(_, _)
InitDetails(ds, i) ==
    IF i = 0 THEN << >>
    ELSE DictSet(InitDetails(ds, i - 1), ds[i],
                 [processed |-> FALSE, results |-> None])

InitProgress(ds) ==
    [total |-> Len(ds), completed |-> 0, details |-> InitDetails(ds, Len(ds))]

\* (mutant) marking that deletes the document's entry and inserts it again,
\* so that details is ordered by marking time and no longer by construction
mark_doc_processed_reinsert(p, doc, results) ==
    [p EXCEPT !.details = Append(SelectSeq(p.details, LAMBDA kv : kv[1] # doc),
                                 <<doc, [processed |-> TRUE, results |-> results]>>),
              !.completed = p.completed + 1]

mark_doc_processed(p, doc, results) ==
    [p EXCEPT !.details = DictSet(p.details, doc,
                                  [processed |-> TRUE, results |-> results]),
              !.completed = p.completed + 1]

check_progress(p) == <<p.completed < p.total, p.completed>>

\* (mutant) analysis_success without the `if in_progress` early return
analysis_success_unguarded(p) ==
    <<\A i \in 1..Len(p.details) : p.details[i][2].processed,
      DictKeys(SelectSeq(p.details, LAMBDA kv : kv[2].results.none))>>

\* (mutant) analysis_success listing the documents that have results
analysis_success_inverted(p) ==
    IF check_progress(p)[1] THEN <<FALSE, << >>>>
    ELSE <<\A i \in 1..Len(p.details) : p.details[i][2].processed,
           DictKeys(SelectSeq(p.details, LAMBDA kv : ~kv[2].results.none))>>

analysis_success(p) ==
    IF check_progress(p)[1] THEN <<FALSE, << >>>>
    ELSE <<\A i \in 1..Len(p.details) : p.details[i][2].processed,
           DictKeys(SelectSeq(p.details, LAMBDA kv : kv[2].results.none))>>

\* (mutant) the inner loop replacing the running count on a repeat sighting
\* instead of adding to it
RECURSIVE FoldTermsOverwrite(_, _, _, _)
FoldTermsOverwrite(combined, doc, results, i) ==
    IF i > Len(results) THEN combined
    ELSE LET term == results[i][1]
             values == results[i][2]
             combined_data ==
                 IF DictHas(combined, term)
                 THEN LET existing == DictGet(combined, term)
                      IN [count |-> values.count,
                          documents |-> Append(existing.documents, doc),
                          sentences |-> existing.sentences \o values.sentences]
                 ELSE [count |-> values.count,
                       documents |-> <<doc>>,
                       sentences |-> values.sentences]
         IN FoldTermsOverwrite(DictSet(combined, term, combined_data), doc,
                               results, i + 1)

\* the inner loop of combine_output over one document's results
RECURSIVE FoldTerms(_, _, _, _)
FoldTerms(combined, doc, results, i) ==
    IF i > Len(results) THEN combined
    ELSE LET term == results[i][1]
             values == results[i][2]
             combined_data ==
                 IF DictHas(combined, term)
                 THEN LET existing == DictGet(combined, term)
                      IN [count |-> existing.count + values.count,
                          documents |-> Append(existing.documents, doc),
                          sentences |-> existing.sentences \o values.sentences]
                 ELSE [count |-> values.count,
                       documents |-> <<doc>>,
                       sentences |-> values.sentences]
         IN FoldTerms(DictSet(combined, term, combined_data), doc, results, i + 1)

\* the outer loop of combine_output over self._progress['details'];
\* None.items() raises
RECURSIVE FoldDocs(_, _, _)
FoldDocs(combined, details, i) ==
    IF i > Len(details) THEN [exc |-> "none", value |-> combined]
    ELSE IF details[i][2].results.none
         THEN [exc |-> "AttributeError", value |-> << >>]
         ELSE FoldDocs(FoldTerms(combined, details[i][1],
                                 details[i][2].results.val, 1),
                       details, i + 1)

\* (mutant) a sort that puts an item before the items of equal count
SortedInsertTiesFirst(out, x) ==
    LET k == Cardinality({j \in 1..Len(out) : out[j][2].count > x[2].count})
    IN SubSeq(out, 1, k) \o <<x>> \o SubSeq(out, k + 1, Len(out))

\* sorted(items, key=count, reverse=True): stable, equal keys keep their order
SortedInsert(out, x) ==
    LET k == Cardinality({j \in 1..Len(out) : out[j][2].count >= x[2].count})
    IN SubSeq(out, 1, k) \o <<x>> \o SubSeq(out, k + 1, Len(out))

RECURSIVE SortedByCount(_, _)
SortedByCount(items, i) ==
    IF i = 0 THEN << >>
    ELSE SortedInsert(SortedByCount(items, i - 1), items[i])

\* (mutant) combine_output without the `if in_progress: raise` check
combine_output_unchecked(p) ==
    LET folded == FoldDocs(<< >>, p.details, 1)
    IN IF folded.exc # "none" THEN folded
       ELSE [exc |-> "none",
             value |-> SortedByCount(folded.value, Len(folded.value))]

combine_output(p) ==
    IF check_progress(p)[1] THEN [exc |-> "ValueError", value |-> << >>]
    ELSE LET folded == FoldDocs(<< >>, p.details, 1)
         IN IF folded.exc # "none" THEN folded
            ELSE [exc |-> "none",
                  value |-> SortedByCount(folded.value, Len(folded.value))]

\* ------------------------------------------------------------ initial state
\* no second run is made
NoOther == [progress |-> InitProgress(<< >>), corpus |-> << >>,
            diverged |-> FALSE, ret |-> Ret("__init__", "none", << >>)]

Init ==
    /\ kind \in {"sync", "async"}
    /\ docs \in DocLists
    /\ progress = InitProgress(docs)
    /\ started = FALSE
    /\ tasks = << >>
    /\ jobs = << >>
    /\ nsteps = 0
    /\ failed = FALSE
    /\ ret = Ret("__init__", "none", << >>)
    /\ other = NoOther

\* --------------------------------------------- SyncMultiDocAnalyzer
\* (mutant) the processed documents are not taken out of the candidates
SyncRemainingAll(ds, p) == Range(ds)

\* set(self._docs) - set(processed docs)
SyncRemaining(ds, p) ==
    Range(ds) \ {p.details[i][1] : i \in {j \in 1..Len(p.details) :
                                            p.details[j][2].processed}}

\* what open() and TermFrequencyAnalyzer raise on an unreadable or empty file
AnalysisErrors == {"IOError", "ValueError"}

\* (mutant) perform_analysis catching the analysis error and recording the
\* document as processed without results
SyncOutcomesIsolating(ds, p) ==
    IF ~check_progress(p)[1]
    THEN {[progress |-> p, exc |-> "none"]}
    ELSE IF SyncRemaining(ds, p) = {}
    THEN {[progress |-> p, exc |-> "StopIteration"]}
    ELSE UNION {
            {[progress |-> mark_doc_processed(p, next_doc, None), exc |-> e]
                : e \in AnalysisErrors}
            \cup {[progress |-> mark_doc_processed(p, next_doc, Some(results)),
                   exc |-> "none"] : results \in TermMapsOf(next_doc)}
            : next_doc \in SyncRemaining(ds, p)}

\* SyncMultiDocAnalyzer.perform_analysis: the outcomes one call can have
SyncOutcomes(ds, p) ==
    IF ~check_progress(p)[1]
    THEN {[progress |-> p, exc |-> "none"]}
    ELSE IF SyncRemaining(ds, p) = {}
    THEN \* next(iter(set())) raises
         {[progress |-> p, exc |-> "StopIteration"]}
    ELSE \* the iteration order of a set of str is not fixed: any element
         UNION {
            {[progress |-> p, exc |-> e] : e \in AnalysisErrors}
            \cup {[progress |-> mark_doc_processed(p, next_doc, Some(results)),
                   exc |-> "none"] : results \in TermMapsOf(next_doc)}
            : next_doc \in SyncRemaining(ds, p)}

SyncPerformAnalysis ==
    /\ kind = "sync"
    /\ nsteps < MaxSteps
    /\ nsteps' = nsteps + 1
    /\ \E o \in SyncOutcomes(docs, progress) :
          /\ progress' = o.progress
          /\ ret' = Ret("perform_analysis", o.exc, << >>)
          /\ failed' = (failed \/ o.exc \in CollaboratorErrors)
    /\ UNCHANGED <<kind, docs, started, tasks, jobs, other>>

\* -------------------------------------------- AsyncMultiDocAnalyzer
\* a job as the work queue holds it; `gets` counts the get() calls that
\* returned its result
NewJob(doc) == [doc |-> doc, state |-> "PENDING", result |-> << >>, gets |-> 0]

\* the dispatch loop over self._docs[1..k]: delay() then self._tasks[doc] = task
RECURSIVE AsyncDispatch(_, _, _, _)
AsyncDispatch(ts, js, ds, k) ==
    IF k = 0 THEN [tasks |-> ts, jobs |-> js]
    ELSE LET prev == AsyncDispatch(ts, js, ds, k - 1)
         IN [tasks |-> DictSet(prev.tasks, ds[k], Len(prev.jobs) + 1),
             jobs |-> Append(prev.jobs, NewJob(ds[k]))]

\* (mutant) the poll loop without `self._tasks[doc] = None`: a fetched job
\* stays in the table and is fetched again by the next poll
RECURSIVE AsyncPollNoConsume(_, _)
AsyncPollNoConsume(st, i) ==
    IF i > Len(st.tasks) THEN st
    ELSE LET doc == st.tasks[i][1]
             task == st.tasks[i][2]
         IN IF task # NoTask /\ st.jobs[task].state # "PENDING"
            THEN IF st.jobs[task].state = "FAILURE"
                 THEN [st EXCEPT !.exc = "TaskFailure"]
                 ELSE AsyncPollNoConsume(
                        [st EXCEPT
                           !.progress = mark_doc_processed(st.progress, doc,
                                            Some(st.jobs[task].result)),
                           !.jobs = [st.jobs EXCEPT ![task].gets = @ + 1]],
                        i + 1)
            ELSE AsyncPollNoConsume(st, i + 1)

\* (mutant) the poll loop catching a failed job: the document is marked
\* processed with no results and its slot is cleared
RECURSIVE AsyncPollIsolating(_, _)
AsyncPollIsolating(st, i) ==
    IF i > Len(st.tasks) THEN st
    ELSE LET doc == st.tasks[i][1]
             task == st.tasks[i][2]
         IN IF task # NoTask /\ st.jobs[task].state # "PENDING"
            THEN AsyncPollIsolating(
                   [st EXCEPT
                      !.progress = mark_doc_processed(st.progress, doc,
                                       IF st.jobs[task].state = "FAILURE"
                                       THEN None
                                       ELSE Some(st.jobs[task].result)),
                      !.tasks = DictSet(st.tasks, doc, NoTask),
                      !.jobs = [st.jobs EXCEPT ![task].gets = @ + 1]],
                   i + 1)
            ELSE AsyncPollIsolating(st, i + 1)

\* the poll loop over self._tasks.items(), from position i on; st carries
\* progress, tasks, jobs and the exception that ended the loop, if any
RECURSIVE AsyncPoll(_, _)
AsyncPoll(st, i) ==
    IF i > Len(st.tasks) THEN st
    ELSE LET doc == st.tasks[i][1]
             task == st.tasks[i][2]
         IN IF task # NoTask /\ st.jobs[task].state # "PENDING"
            THEN IF st.jobs[task].state = "FAILURE"
                 THEN [st EXCEPT !.exc = "TaskFailure"]
                 ELSE AsyncPoll(
                        [st EXCEPT
                           !.progress = mark_doc_processed(st.progress, doc,
                                            Some(st.jobs[task].result)),
                           !.tasks = DictSet(st.tasks, doc, NoTask),
                           !.jobs = [st.jobs EXCEPT ![task].gets = @ + 1]],
                        i + 1)
            ELSE AsyncPoll(st, i + 1)

\* (mutant) perform_analysis without the `if not in_progress: return` guard
AsyncOutcomesNoGuard(ds, p, s, ts, js) ==
    IF s
    THEN LET st == AsyncPoll([progress |-> p, tasks |-> ts, jobs |-> js,
                              exc |-> "none"], 1)
         IN {[progress |-> st.progress, started |-> s, tasks |-> st.tasks,
              jobs |-> st.jobs, exc |-> st.exc]}
    ELSE {LET st == AsyncDispatch(ts, js, ds, k)
          IN [progress |-> p, started |-> TRUE, tasks |-> st.tasks,
              jobs |-> st.jobs,
              exc |-> IF k < Len(ds) THEN "IOError" ELSE "none"]
          : k \in 0..Len(ds)}

\* AsyncMultiDocAnalyzer.perform_analysis: the outcomes one call can have
AsyncOutcomes(ds, p, s, ts, js) ==
    IF ~check_progress(p)[1]
    THEN {[progress |-> p, started |-> s, tasks |-> ts, jobs |-> js,
           exc |-> "none"]}
    ELSE IF s
    THEN LET st == AsyncPoll([progress |-> p, tasks |-> ts, jobs |-> js,
                              exc |-> "none"], 1)
         IN {[progress |-> st.progress, started |-> s, tasks |-> st.tasks,
              jobs |-> st.jobs, exc |-> st.exc]}
    ELSE \* open() of the document at position k + 1 may raise
         {LET st == AsyncDispatch(ts, js, ds, k)
          IN [progress |-> p, started |-> TRUE, tasks |-> st.tasks,
              jobs |-> st.jobs,
              exc |-> IF k < Len(ds) THEN "IOError" ELSE "none"]
          : k \in 0..Len(ds)}

AsyncPerformAnalysis ==
    /\ kind = "async"
    /\ nsteps < MaxSteps
    /\ nsteps' = nsteps + 1
    /\ \E o \in AsyncOutcomes(docs, progress, started, tasks, jobs) :
          /\ progress' = o.progress
          /\ started' = o.started
          /\ tasks' = o.tasks
          /\ jobs' = o.jobs
          /\ ret' = Ret("perform_analysis", o.exc, << >>)
          /\ failed' = (failed \/ o.exc \in CollaboratorErrors)
    /\ UNCHANGED <<kind, docs, other>>

\* a Celery worker finishes async_process_document for job j
WorkerFinish ==
    /\ \E j \in 1..Len(jobs) :
          /\ jobs[j].state = "PENDING"
          /\ \/ \E results \in TermMapsOf(jobs[j].doc) :
                   jobs' = [jobs EXCEPT ![j].state = "SUCCESS",
                                        ![j].result = results]
             \/ jobs' = [jobs EXCEPT ![j].state = "FAILURE"]
    /\ UNCHANGED <<kind, docs, progress, started, tasks, nsteps, failed, ret,
                   other>>

\* ------------------------------------------------ the caller's reads
CheckProgress ==
    /\ ret' = Ret("check_progress", "none", check_progress(progress))
    /\ UNCHANGED <<kind, docs, progress, started, tasks, jobs, nsteps, failed,
                   other>>

AnalysisSuccess ==
    /\ ret' = Ret("analysis_success", "none", analysis_success(progress))
    /\ UNCHANGED <<kind, docs, progress, started, tasks, jobs, nsteps, failed,
                   other>>

CombineOutput ==
    /\ LET r == combine_output(progress)
       IN ret' = Ret("combine_output", r.exc, r.value)
    /\ UNCHANGED <<kind, docs, progress, started, tasks, jobs, nsteps, failed,
                   other>>

Next ==
    \/ SyncPerformAnalysis
    \/ AsyncPerformAnalysis
    \/ WorkerFinish
    \/ CheckProgress
    \/ AnalysisSuccess
    \/ CombineOutput

Spec == Init /\ [][Next]_vars

\* ------------------------- combine_output on any completed progress
\* _mark_doc_processed(doc, results) takes any results, None included, and
\* analysis_success() reports the processed documents whose results are None.
\* Here every document of the batch has been marked once, with a term map or
\* with None, and the caller reads the outcome.
ResultChoices(ds) ==
    {f \in [Range(ds) -> {None} \cup {Some(r) : r \in UNION {TermMapsOf(d) : d \in Range(ds)}}] :
        \A d \in Range(ds) : f[d].none \/ f[d].val \in TermMapsOf(d)}

RECURSIVE MarkAll(_, _, _, _)
MarkAll(p, keys, choice, i) ==
    IF i = 0 THEN p
    ELSE mark_doc_processed(MarkAll(p, keys, choice, i - 1), keys[i],
                            choice[keys[i]])

InitMarked ==
    /\ kind \in {"sync", "async"}
    /\ docs \in DocLists
    /\ \E choice \in ResultChoices(docs) :
          progress = MarkAll(InitProgress(docs), DictKeys(InitDetails(docs, Len(docs))),
                             choice, Len(InitDetails(docs, Len(docs))))
    /\ started = FALSE
    /\ tasks = << >>
    /\ jobs = << >>
    /\ nsteps = 0
    /\ failed = FALSE
    /\ ret = Ret("_mark_doc_processed", "none", << >>)
    /\ other = NoOther

NextMarked ==
    \/ CheckProgress
    \/ AnalysisSuccess
    \/ CombineOutput

SpecMarked == InitMarked /\ [][NextMarked]_vars

\* ------------------------------------- two runs on the same documents
\* The program is run twice, in two processes, on the same list of documents
\* with the sync strategy. The files are the same in both runs, so the
\* analyzer returns the same term map, corpus[d], for document d in both, and
\* no file is unreadable. `progress` is the first run's, other.progress the
\* second's; the runs step together.
Corpora(ds) ==
    {f \in [Range(ds) -> UNION {TermMapsOf(d) : d \in Range(ds)}] :
        \A d \in Range(ds) : f[d] \in TermMapsOf(d)}

InitTwin ==
    /\ kind = "sync"
    /\ docs \in DocLists
    /\ progress = InitProgress(docs)
    /\ started = FALSE
    /\ tasks = << >>
    /\ jobs = << >>
    /\ nsteps = 0
    /\ failed = FALSE
    /\ ret = Ret("__init__", "none", << >>)
    /\ \E f \in Corpora(docs) :
          other = [progress |-> InitProgress(docs), corpus |-> f,
                   diverged |-> FALSE, ret |-> Ret("__init__", "none", << >>)]

\* the documents marked processed in p
Marked(p) ==
    {p.details[i][1] : i \in {j \in 1..Len(p.details) : p.details[j][2].processed}}

\* the outcomes of SyncMultiDocAnalyzer.perform_analysis on these files
TwinOutcomes(ds, p, corpus) ==
    {o \in SyncOutcomes(ds, p) :
        /\ o.exc \notin AnalysisErrors
        /\ \A d \in Marked(o.progress) :
              DictGet(o.progress.details, d).results = Some(corpus[d])}

\* one perform_analysis() call in each run
TwinPerformAnalysis ==
    /\ nsteps < MaxSteps
    /\ nsteps' = nsteps + 1
    /\ \E o1 \in TwinOutcomes(docs, progress, other.corpus),
          o2 \in TwinOutcomes(docs, other.progress, other.corpus) :
          /\ progress' = o1.progress
          /\ ret' = Ret("perform_analysis", o1.exc, << >>)
          /\ other' = [other EXCEPT
                         !.progress = o2.progress,
                         !.ret = Ret("perform_analysis", o2.exc, << >>),
                         !.diverged = @ \/ Marked(o1.progress) # Marked(o2.progress)]
    /\ UNCHANGED <<kind, docs, started, tasks, jobs, failed>>

\* combine_output() called in each run
TwinCombineOutput ==
    /\ LET r1 == combine_output(progress)
           r2 == combine_output(other.progress)
       IN /\ ret' = Ret("combine_output", r1.exc, r1.value)
          /\ other' = [other EXCEPT !.ret = Ret("combine_output", r2.exc, r2.value)]
    /\ UNCHANGED <<kind, docs, progress, started, tasks, jobs, nsteps, failed>>

NextTwin ==
    \/ TwinPerformAnalysis
    \/ TwinCombineOutput

SpecTwin == InitTwin /\ [][NextTwin]_vars

\* ------------------------------------------------------------ properties
in_progress == check_progress(progress)[1]
ProcessedDocs(p) ==
    {p.details[i][1] : i \in {j \in 1..Len(p.details) : p.details[j][2].processed}}
AllProcessed(p) == \A i \in 1..Len(p.details) : p.details[i][2].processed
StepTaken == nsteps' = nsteps + 1

\* C1: in every reachable state of a batch, sync or async, completed equals
\* the number of documents whose entry is processed, and 0 <= completed <= total.
C1_CompletedCountsProcessed ==
    /\ progress.completed = Cardinality(ProcessedDocs(progress))
    /\ 0 <= progress.completed
    /\ progress.completed <= progress.total

\* C1 witness: a batch of two documents, one of them processed by a step.
C1_Witness ==
    /\ progress.total = 2
    /\ progress.completed = 1
    /\ Cardinality(ProcessedDocs(progress)) = 1
    /\ Len(progress.details) = 2
    /\ ret.op = "perform_analysis"

\* C2: across every step() call of either strategy, completed never decreases,
\* no processed document becomes unprocessed, and completed never exceeds total.
C2_CompletedMonotonic ==
    [][StepTaken =>
         /\ progress'.completed >= progress.completed
         /\ ProcessedDocs(progress) \subseteq ProcessedDocs(progress')
         /\ progress'.completed <= progress'.total]_vars

\* C2 witness: an async poll, made after an earlier poll had already processed
\* a document, has brought completed to total.
C2_Witness ==
    /\ kind = "async"
    /\ nsteps = 3
    /\ progress.total = 2
    /\ progress.completed = 2
    /\ ret.op = "perform_analysis"
    /\ ret.exc = "none"

\* C3 (as claimed): check_progress() reports inProgress == false if and only if
\* every document's entry is processed, for every list the constructor accepts.
C3_DoneIffAllProcessed ==
    (~in_progress) <=> AllProcessed(progress)
\* C4 (as claimed): sync strategy, from a fresh batch and with no analysis
\* failing: each step() made while in progress processes exactly one more
\* document, so after n <= total steps completed = n, and after exactly total
\* steps inProgress is false.
C4_SyncOnePerStep ==
    (kind = "sync" /\ ~failed /\ nsteps <= progress.total) =>
        /\ progress.completed = nsteps
        /\ (nsteps = progress.total => ~in_progress)

\* every job still in the table reports ready()
AllHandlesReady ==
    \A i \in 1..Len(tasks) :
        tasks[i][2] # NoTask => jobs[tasks[i][2]].state # "PENDING"

\* C5 (as claimed): async strategy, with no collaborator failing: the first
\* step() leaves one non-absent handle per document and completed = 0; and a
\* later step() taken when every handle reports ready brings completed = total
\* and leaves every job slot absent.
C5_AsyncDispatchThenCollect ==
    [][(kind = "async" /\ StepTaken /\ ~failed') =>
         /\ nsteps = 0 =>
              /\ \A i \in 1..Len(docs) :
                    DictHas(tasks', docs[i]) /\ DictGet(tasks', docs[i]) # NoTask
              /\ Len(tasks') = Cardinality(Range(docs))
              /\ progress'.completed = 0
         /\ (nsteps >= 1 /\ AllHandlesReady) =>
              /\ progress'.completed = progress'.total
              /\ \A i \in 1..Len(tasks') : tasks'[i][2] = NoTask]_vars

\* C6: for both strategies a step() taken when inProgress is false returns
\* normally and leaves progress, the started flag, the job table and the work
\* queue (no job submitted, none fetched) unchanged.
C6_StepAfterDoneIsNoOp ==
    [][(StepTaken /\ ~in_progress) =>
         /\ UNCHANGED <<progress, started, tasks, jobs>>
         /\ ret'.exc = "none"]_vars

\* C6 witness: a sync batch of two documents after a third step(): the first
\* two steps processed the documents, the third found the batch complete.
C6_Witness ==
    /\ kind = "sync"
    /\ progress.total = 2
    /\ ~in_progress
    /\ nsteps = 3
    /\ ~failed
    /\ ret.op = "perform_analysis"
\* C7: combine_output() called while inProgress is true raises and returns no
\* report; a report is returned only when inProgress is false.
C7_CombineMidRunFails ==
    ret.op = "combine_output" =>
        /\ in_progress => (ret.exc = "ValueError" /\ ret.value = << >>)
        /\ ret.exc = "none" => ~in_progress

\* C7 witness: combine_output() was called with one of two documents
\* processed, and raised.
C7_Witness ==
    /\ ret.op = "combine_output"
    /\ ret.exc = "ValueError"
    /\ progress.total = 2
    /\ progress.completed = 1

\* C8: analysis_success() returns (False, []) whenever inProgress is true,
\* however many documents are already processed.
C8_SuccessMidRunIsFalse ==
    (ret.op = "analysis_success" /\ in_progress) => ret.value = <<FALSE, << >>>>

\* C8 witness: analysis_success() was called on an async batch with one of two
\* documents processed and the other still pending.
C8_Witness ==
    /\ ret.op = "analysis_success"
    /\ kind = "async"
    /\ in_progress
    /\ progress.completed = 1
    /\ Len(progress.details) = 2

\* first sighting of a term: the first document, in construction order, whose
\* results hold the term, and the term's position in that document's results
DocPos(d) == CHOOSE i \in 1..Len(docs) :
                 docs[i] = d /\ \A j \in 1..(i - 1) : docs[j] # d
ResultsOf(d) == DictGet(progress.details, d).results.val
FirstDocOf(t) ==
    CHOOSE d \in Range(docs) :
        /\ DictHas(ResultsOf(d), t)
        /\ \A e \in Range(docs) : DictHas(ResultsOf(e), t) => DocPos(d) <= DocPos(e)
SightedBefore(t, u) ==
    \/ DocPos(FirstDocOf(t)) < DocPos(FirstDocOf(u))
    \/ /\ FirstDocOf(t) = FirstDocOf(u)
       /\ DictIndex(ResultsOf(FirstDocOf(t)), t) < DictIndex(ResultsOf(FirstDocOf(u)), u)

\* C9: the report combine_output() returns is ordered by combined count,
\* descending, and terms tied on count appear in first-sighting order
\* (document construction order, then position in the document's term map).
C9_ReportOrder ==
    (ret.op = "combine_output" /\ ret.exc = "none") =>
        \A i, j \in 1..Len(ret.value) :
            i < j =>
                /\ ret.value[i][2].count >= ret.value[j][2].count
                /\ ret.value[i][2].count = ret.value[j][2].count
                      => SightedBefore(ret.value[i][1], ret.value[j][1])

\* C9 witness: the tie of the specification's example: cat is in D1 and D2,
\* dog only in D2, the combined counts are equal, and cat is reported first.
C9_Witness ==
    /\ ret.op = "combine_output"
    /\ ret.exc = "none"
    /\ Len(ret.value) = 2
    /\ ret.value[1][1] = "cat"
    /\ ret.value[1][2].documents = <<"D1", "D2">>
    /\ ret.value[2][1] = "dog"
    /\ ret.value[2][2].documents = <<"D2">>
    /\ ret.value[1][2].count = ret.value[2][2].count

C11_SyncSelectionDeterministic ==
    Marked(progress) = Marked(other.progress)
\* the documents whose job is in the table and has failed: ready() is true
\* and get() raises
FailedJobDocs ==
    {tasks[i][1] : i \in {j \in 1..Len(tasks) :
        tasks[j][2] # NoTask /\ jobs[tasks[j][2]].state = "FAILURE"}}

\* C12: async failure: a step() that finds a ready job whose get() raises lets
\* the exception out; the document of that job stays unprocessed and keeps its
\* handle across every later step, and inProgress stays true from then on.
C12_AsyncFailureStalls ==
    /\ [][(StepTaken /\ FailedJobDocs # {}) => ret'.exc = "TaskFailure"]_vars
    /\ [][\A d \in FailedJobDocs :
             d \in FailedJobDocs' /\ d \notin Marked(progress')]_vars
    /\ [](FailedJobDocs # {} => (in_progress /\ FailedJobDocs \cap Marked(progress) = {}))

\* C12 witness: the fourth step() of an async batch of two documents raised the
\* job's failure again; the other document is processed, the batch in progress.
C12_Witness ==
    /\ kind = "async"
    /\ nsteps = 4
    /\ ret.op = "perform_analysis"
    /\ ret.exc = "TaskFailure"
    /\ FailedJobDocs # {}
    /\ progress.completed = 1
    /\ in_progress
\* C13 (as claimed): constructing a scheduler with an empty list of documents
\* fails with a construction error, so no scheduler with total = 0 exists.
C13_EmptyBatchRejected ==
    progress.total > 0
\* a poll step: a step() of the async strategy after the first, in progress
PollStep == kind = "async" /\ StepTaken /\ started /\ in_progress
\* slot i of the job table holds a handle whose ready() is true
ReadyAt(i) == tasks[i][2] # NoTask /\ jobs[tasks[i][2]].state # "PENDING"
\* the poll marked the document of slot i with its job's result and cleared
\* the slot, by one get()
FetchedAt(i) ==
    /\ DictGet(progress'.details, tasks[i][1]) =
          [processed |-> TRUE, results |-> Some(jobs[tasks[i][2]].result)]
    /\ tasks'[i] = <<tasks[i][1], NoTask>>
    /\ jobs'[tasks[i][2]] = [jobs[tasks[i][2]] EXCEPT !.gets = @ + 1]
\* the poll left slot i, its document and its job as they were
UntouchedAt(i) ==
    /\ tasks'[i] = tasks[i]
    /\ DictGet(progress'.details, tasks[i][1]) = DictGet(progress.details, tasks[i][1])
    /\ tasks[i][2] # NoTask => jobs'[tasks[i][2]] = jobs[tasks[i][2]]
\* the first slot whose handle is ready and whose get() raises
FirstFailedSlot ==
    LET bad == {i \in 1..Len(tasks) :
                   ReadyAt(i) /\ jobs[tasks[i][2]].state = "FAILURE"}
    IN IF bad = {} THEN Len(tasks) + 1
       ELSE CHOOSE i \in bad : \A j \in bad : i <= j

\* C14 (as claimed): in an async poll step exactly the documents whose handle
\* is non-absent and ready are marked processed with get()'s result and have
\* their slot set to absent (a handle whose get() raises gives no result:
\* its document is left to C12); the documents whose handle is not ready are
\* left unchanged.
C14_PollFetchesAllReady ==
    [][PollStep =>
         /\ Len(tasks') = Len(tasks)
         /\ \A i \in 1..Len(tasks) :
               /\ (ReadyAt(i) /\ jobs[tasks[i][2]].state = "SUCCESS") => FetchedAt(i)
               /\ ~ReadyAt(i) => UntouchedAt(i)]_vars

\* C14, what the code does: in an async poll step exactly the documents whose
\* handle is non-absent and ready, and that come in the job table before the
\* first ready handle whose get() raises, are marked processed with get()'s result and
\* have their slot set to absent; every other document, handle and job is left
\* unchanged, so get() is never called on a handle that is not ready; the step
\* raises exactly when such a failed handle exists.
C14_PollFetchesReadyUntilFailure ==
    [][PollStep =>
         /\ Len(tasks') = Len(tasks)
         /\ Len(jobs') = Len(jobs)
         /\ \A i \in 1..Len(tasks) :
               IF ReadyAt(i) /\ i < FirstFailedSlot
               THEN FetchedAt(i) ELSE UntouchedAt(i)
         /\ progress'.completed = progress.completed +
               Cardinality({i \in 1..Len(tasks) : ReadyAt(i) /\ i < FirstFailedSlot})
         /\ (ret'.exc = "TaskFailure") <=> (FirstFailedSlot <= Len(tasks))
         /\ ret'.exc \in {"none", "TaskFailure"}]_vars
\* the documents, in construction order, whose results hold term t
DocsWith(t) == SelectSeq(docs, LAMBDA d : DictHas(ResultsOf(d), t))
\* the sum of t's counts, and the concatenation of t's sentences, over ds
RECURSIVE SumCounts(_, _)
SumCounts(ds, t) ==
    IF ds = << >> THEN 0
    ELSE DictGet(ResultsOf(Head(ds)), t).count + SumCounts(Tail(ds), t)
RECURSIVE CatSentences(_, _)
CatSentences(ds, t) ==
    IF ds = << >> THEN << >>
    ELSE DictGet(ResultsOf(Head(ds)), t).sentences \o CatSentences(Tail(ds), t)

\* C15: for every term of the report combine_output() returns, count is the
\* sum of the term's counts over the documents containing it, documents lists
\* exactly those documents, each once, in construction order, and sentences is
\* the concatenation of their sentence lists in that order; and every term of
\* every document's term map appears in the report exactly once.
C15_ReportEntries ==
    (ret.op = "combine_output" /\ ret.exc = "none") =>
        /\ \A i \in 1..Len(ret.value) :
              LET t == ret.value[i][1]
                  v == ret.value[i][2]
              IN /\ DocsWith(t) # << >>
                 /\ v.documents = DocsWith(t)
                 /\ v.count = SumCounts(DocsWith(t), t)
                 /\ v.sentences = CatSentences(DocsWith(t), t)
        /\ \A d \in Range(docs) :
              \A k \in 1..Len(ResultsOf(d)) :
                 Cardinality({i \in 1..Len(ret.value) :
                                 ret.value[i][1] = ResultsOf(d)[k][1]}) = 1

\* C15 witness: a report of two terms in which cat, found twice in each of D1
\* and D2, has count 4 and the sentences of both documents.
C15_Witness ==
    /\ ret.op = "combine_output"
    /\ ret.exc = "none"
    /\ Len(ret.value) = 2
    /\ ret.value[1][1] = "cat"
    /\ ret.value[1][2].count = 4
    /\ ret.value[1][2].documents = <<"D1", "D2">>
    /\ ret.value[1][2].sentences = << <<"D1", "cat">>, <<"D2", "cat">> >>
\* C16: sync failure: when reading or analyzing the selected document raises
\* during step(), the error leaves step() and the scheduler state is as before:
\* no document is marked and completed is not incremented.
C16_SyncFailureLeavesState ==
    [][(kind = "sync" /\ StepTaken /\ in_progress /\ ret'.exc # "none") =>
         /\ UNCHANGED <<progress, started, tasks, jobs>>
         /\ ret'.op = "perform_analysis"]_vars

\* C16 witness: the second step() of a sync batch of two documents raised on
\* reading the remaining document; the first document stays the only one
\* processed.
C16_Witness ==
    /\ kind = "sync"
    /\ nsteps = 2
    /\ ret.op = "perform_analysis"
    /\ ret.exc = "IOError"
    /\ progress.total = 2
    /\ progress.completed = 1
    /\ Len(progress.details) = 2
\* the entries of details whose results are present
WithResults(details) == SelectSeq(details, LAMBDA kv : ~kv[2].results.none)

C18_MarkedOncePerDocument ==
    /\ [][StepTaken =>
            /\ progress'.completed - progress.completed
                 = Cardinality(Marked(progress') \ Marked(progress))
            /\ Marked(progress) \subseteq Marked(progress')
            /\ DictKeys(progress'.details) = DictKeys(progress.details)
            /\ \A d \in Marked(progress) :
                 DictGet(progress'.details, d) = DictGet(progress.details, d)]_vars
    /\ [](\A j \in 1..Len(jobs) :
            jobs[j].state = "SUCCESS" => jobs[j].gets <= 1)

C18_Witness ==
    /\ kind = "async" /\ nsteps = 3 /\ progress.completed = 2
    /\ progress.total = 2 /\ Len(progress.details) = 2
    /\ \A j \in 1..Len(jobs) : jobs[j].gets = 1

\* the job slot of document d holds a handle
HasHandle(d) == DictHas(tasks, d) /\ DictGet(tasks, d) # NoTask

\* C19 (as claimed): in the async strategy, whenever the strategy is marked
\* started, a document's job slot is absent exactly when the document is
\* processed: every unprocessed document has a handle a later poll can consume.
C19_SlotAbsentIffProcessed ==
    (kind = "async" /\ started) =>
        \A d \in Range(docs) : (d \in Marked(progress)) <=> ~HasHandle(d)

\* the progress of a batch on ds whose documents were marked in construction
\* order with the results p holds for them
MarkedInOrder(ds, p) ==
    MarkAll(InitProgress(ds), DictKeys(InitProgress(ds).details),
            [d \in Range(ds) |-> DictGet(p.details, d).results],
            Len(InitProgress(ds).details))

\* the report of a completed batch is the report of the same documents with
\* the same results marked in construction order
ReportIsFunctionOfResults ==
    (ret.op = "combine_output" /\ ~in_progress /\ AllProcessed(progress)) =>
        /\ ret.exc = "none"
        /\ ret.value = combine_output(MarkedInOrder(docs, progress)).value

\* C20: the report depends only on the construction order of the documents
\* and on each document's results, not on the order of marking: two runs on
\* the same list whose documents get the same results, whatever order they
\* selected the documents in, return the identical ordered report once complete.
C20_ReportIndependentOfMarkingOrder ==
    /\ ReportIsFunctionOfResults
    /\ (/\ ret.op = "combine_output" /\ other.ret.op = "combine_output"
        /\ ~in_progress /\ ~check_progress(other.progress)[1]) =>
           /\ ret.exc = "none"
           /\ other.ret = ret
           /\ combine_output(other.progress) = combine_output(progress)

C20_Witness ==
    /\ other.diverged
    /\ ret.op = "combine_output" /\ other.ret.op = "combine_output"
    /\ ~in_progress /\ ~check_progress(other.progress)[1]
    /\ Len(ret.value) = 2
    /\ \E i \in 1..Len(ret.value) : ret.value[i][2].documents = <<"D1", "D2">>
    /\ ret.value[1][2].count = ret.value[2][2].count
====
